---------------------------- MODULE Spec2Model ----------------------------
(***************************************************************************)
(* A model of django-fusionbox: the redirect table built from CSV rows     *)
(* (fusionbox/middleware.py), the two response middlewares, the template   *)
(* finder view and the us_dollars_and_cents filter                         *)
(* (fusionbox/templatetags/fusionbox_tags.py).                             *)
(*                                                                         *)
(* Python strings are sequences of one-character strings, so that strip,   *)
(* endswith, int(), urlparse and urljoin are computed and not assumed.     *)
(* None is the one-element sequence <<"None">>, which no string equals.    *)
(***************************************************************************)
EXTENDS Integers, Sequences, FiniteSets, TLC

VARIABLES
    APPEND_SLASH,   \* settings.APPEND_SLASH
    redirect,       \* the Redirect object last built by Redirect.__init__
    pre,            \* the last call of preprocess_redirects: inputs, locals, outcome
    mw,             \* the RedirectFallbackMiddleware instance
    fb,             \* the last call of RedirectFallbackMiddleware.process_response
    templates,      \* the template directories: template name -> kind
    request,        \* the request GenericTemplateFinderMiddleware is handling
    finder,         \* the last call into the template finder
    money           \* the last call of us_dollars_and_cents

vars == <<APPEND_SLASH, redirect, pre, mw, fb, templates, request, finder, money>>

Idle == [kind |-> "idle"]

(***************************************************************************)
(* Python's str and int operations used by the code.                       *)
(***************************************************************************)
None == <<"None">>

\* bool(x) of a str-or-None value: None and '' are falsy.
Truthy(s) == s # None /\ s # <<>>

Whitespace == {" "}

RECURSIVE lstrip(_, _)
lstrip(s, chars) ==
    IF s # <<>> /\ Head(s) \in chars THEN lstrip(Tail(s), chars) ELSE s

RECURSIVE rstrip(_, _)
rstrip(s, chars) ==
    IF s # <<>> /\ s[Len(s)] \in chars
    THEN rstrip(SubSeq(s, 1, Len(s) - 1), chars)
    ELSE s

strip(s, chars) == rstrip(lstrip(s, chars), chars)

startswith(s, p) == Len(p) <= Len(s) /\ SubSeq(s, 1, Len(p)) = p

endswith(s, p) == Len(p) <= Len(s) /\ SubSeq(s, Len(s) - Len(p) + 1, Len(s)) = p

\* s.find(c): the first index of character c in s, 0 when there is none.
RECURSIVE find(_, _, _)
find(s, c, i) ==
    IF i > Len(s) THEN 0
    ELSE IF s[i] = c THEN i
    ELSE find(s, c, i + 1)

\* s.rfind(c): the last index of character c in s, 0 when there is none.
RECURSIVE rfind(_, _, _)
rfind(s, c, i) ==
    IF i < 1 THEN 0
    ELSE IF s[i] = c THEN i
    ELSE rfind(s, c, i - 1)

DigitValue(c) ==
    CASE c = "0" -> 0 [] c = "1" -> 1 [] c = "2" -> 2 [] c = "3" -> 3
      [] c = "4" -> 4 [] c = "5" -> 5 [] c = "6" -> 6 [] c = "7" -> 7
      [] c = "8" -> 8 [] c = "9" -> 9

RECURSIVE digits_to_int(_, _)
digits_to_int(s, acc) ==
    IF s = <<>> THEN acc
    ELSE digits_to_int(Tail(s), acc * 10 + DigitValue(Head(s)))

\* int(s) of a string of decimal digits; int() ignores surrounding whitespace.
int(s) == digits_to_int(strip(s, Whitespace), 0)

(***************************************************************************)
(* urlparse and urljoin (six.moves.urllib.parse) on URLs without params,   *)
(* query or fragment: [scheme, netloc, path].                              *)
(***************************************************************************)
\* The netloc and path of what follows "//".
SplitNetloc(scheme, after, cut) ==
    [scheme |-> scheme,
     netloc |-> IF cut = 0 THEN after ELSE SubSeq(after, 1, cut - 1),
     path   |-> IF cut = 0 THEN <<>> ELSE SubSeq(after, cut, Len(after))]

\* The netloc and path of what follows the scheme.
SplitRest(scheme, rest) ==
    IF startswith(rest, <<"/", "/">>)
    THEN SplitNetloc(scheme, SubSeq(rest, 3, Len(rest)),
                     find(SubSeq(rest, 3, Len(rest)), "/", 1))
    ELSE [scheme |-> scheme, netloc |-> <<>>, path |-> rest]

\* A scheme is what precedes the first ":", when that comes before any "/".
SplitScheme(url, colon, slash) ==
    IF colon > 1 /\ (slash = 0 \/ colon < slash)
    THEN SplitRest(SubSeq(url, 1, colon - 1), SubSeq(url, colon + 1, Len(url)))
    ELSE SplitRest(<<>>, url)

urlparse(url) == SplitScheme(url, find(url, ":", 1), find(url, "/", 1))

Unparse(scheme, netloc, path) ==
    (IF scheme # <<>> THEN scheme \o <<":">> ELSE <<>>)
    \o (IF netloc # <<>> THEN <<"/", "/">> \o netloc ELSE <<>>)
    \o (IF netloc # <<>> /\ path # <<>> /\ Head(path) # "/" THEN <<"/">> ELSE <<>>)
    \o path

urlunparse(u) == Unparse(u.scheme, u.netloc, u.path)

\* urljoin of a parsed base and a parsed url; raw is the url as given.
JoinParsed(b, u, raw) ==
    IF u.scheme # <<>> /\ u.scheme # b.scheme THEN raw
    ELSE IF u.netloc # <<>> THEN Unparse(b.scheme, u.netloc, u.path)
    ELSE IF u.path = <<>> THEN Unparse(b.scheme, b.netloc, b.path)
    ELSE IF Head(u.path) = "/" THEN Unparse(b.scheme, b.netloc, u.path)
    ELSE Unparse(b.scheme, b.netloc,
                 SubSeq(b.path, 1, rfind(b.path, "/", Len(b.path))) \o u.path)

\* urljoin(base, url) for a url without a scheme of its own and no dot segments.
urljoin(base, url) ==
    IF base = <<>> THEN url
    ELSE IF url = <<>> THEN base
    ELSE JoinParsed(urlparse(base), urlparse(url), url)

(***************************************************************************)
(* class Redirect                                                          *)
(***************************************************************************)
DefaultStatusCode == 301
GoneStatusCode == 410
FirstRedirectCode == 300
LastRedirectCode == 399

\* Redirect.add_error: creates the dictionary and stores nothing in it.
add_error(errors, field, message) == errors

\* Redirect.validate: the errors dictionary, as a set of <<field, message>>.
validate(status_code, filename, line_number) ==
    IF status_code < FirstRedirectCode
       \/ (status_code > LastRedirectCode /\ ~(status_code = GoneStatusCode))
    THEN add_error({}, "status_code",
                   [kind |-> "NonRedirectStatus", filename |-> filename,
                    line_number |-> line_number, status_code |-> status_code])
    ELSE {}

\* Redirect.__init__ as it would be if line 150 tested the stripped target.
Redirect_TargetStrippedFirst(source, target, status_code, filename, line_number) ==
    LET tgt  == IF target = None THEN <<>> ELSE strip(target, Whitespace)
        code == IF Truthy(tgt)
                THEN (IF Truthy(status_code) THEN int(status_code) ELSE DefaultStatusCode)
                ELSE GoneStatusCode
    IN  [source |-> strip(source, Whitespace),
         target |-> tgt,
         status_code |-> code,
         filename |-> IF Truthy(filename) THEN filename ELSE <<>>,
         line_number |-> IF line_number = 0 THEN "" ELSE ToString(line_number)]

\* Redirect.__init__ (lines 145-158): line 150 tests the target as given, not
\* the stripped self.target. _errors is filled by the first is_valid() or errors.
Redirect(source, target, status_code, filename, line_number) ==
    LET tgt  == IF Truthy(target) THEN strip(target, Whitespace) ELSE <<>>
        code == IF Truthy(target)
                THEN (IF Truthy(status_code) THEN int(status_code) ELSE DefaultStatusCode)
                ELSE GoneStatusCode
    IN  [source |-> strip(source, Whitespace),
         target |-> tgt,
         status_code |-> code,
         filename |-> IF Truthy(filename) THEN filename ELSE <<>>,
         line_number |-> IF line_number = 0 THEN "" ELSE ToString(line_number)]

\* Redirect.errors
errors(r) == validate(r.status_code, r.filename, r.line_number)

\* Redirect.is_valid: bool(self._errors)
is_valid(r) == errors(r) # {}


(***************************************************************************)
(* scrape_redirects and preprocess_redirects                               *)
(***************************************************************************)
CsvFile == <<"r", ".", "c", "s", "v">>

\* scrape_redirects: the rows of one CSV file, each with its file name and its
\* index in the file (enumerate starts at 0).
scrape_redirects(rows) ==
    [i \in 1..Len(rows) |->
        [source |-> rows[i].source, target |-> rows[i].target,
         status_code |-> rows[i].status_code,
         filename |-> CsvFile, line_number |-> i - 1]]

\* A dict: a function on the keys it holds.
EmptyDict == [k \in {} |-> <<>>]

Put(d, k, v) == [x \in (DOMAIN d) \cup {k} |-> IF x = k THEN v ELSE d[x]]

\* defaultdict(list)[k].append(v)
AppendTo(d, k, v) == Put(d, k, Append(IF k \in DOMAIN d THEN d[k] ELSE <<>>, v))

\* for message in redirect.errors.values(): error_messages[source] = message
\* (the entry becomes the message itself, no longer a list).
RECURSIVE AssignEach(_, _, _)
AssignEach(em, source, errs) ==
    IF errs = {} THEN em
    ELSE LET e == CHOOSE x \in errs : TRUE
         IN  AssignEach(Put(em, source, e[2]), source, errs \ {e})

RedirectOfLine(line) ==
    Redirect(line.source, line.target, line.status_code, line.filename, line.line_number)

\* The loop body as it would be if a repeated source kept its first Redirect.
ProcessLine_KeepsFirst(acc, line) ==
    LET r   == RedirectOfLine(line)
        em  == IF ~is_valid(r) THEN AssignEach(acc.error_messages, r.source, errors(r))
               ELSE acc.error_messages
        dup == r.source \in DOMAIN acc.processed_redirects
        wm  == IF dup
               THEN AppendTo(acc.warning_messages, r.source,
                             [kind |-> "Duplicate", filename |-> line.filename,
                              line_number |-> ToString(line.line_number)])
               ELSE acc.warning_messages
    IN  [processed_redirects |-> IF dup THEN acc.processed_redirects
                                 ELSE Put(acc.processed_redirects, r.source, r),
         error_messages |-> em,
         warning_messages |-> wm]

\* One iteration of the loop over the lines (lines 197-208).
ProcessLine(acc, line) ==
    LET r   == RedirectOfLine(line)
        em  == IF ~is_valid(r) THEN AssignEach(acc.error_messages, r.source, errors(r))
               ELSE acc.error_messages
        wm  == IF r.source \in DOMAIN acc.processed_redirects
               THEN AppendTo(acc.warning_messages, r.source,
                             [kind |-> "Duplicate", filename |-> line.filename,
                              line_number |-> ToString(line.line_number)])
               ELSE acc.warning_messages
    IN  [processed_redirects |-> Put(acc.processed_redirects, r.source, r),
         error_messages |-> em,
         warning_messages |-> wm]

RECURSIVE ProcessLines(_, _, _)
ProcessLines(acc, lines, i) ==
    IF i > Len(lines) THEN acc
    ELSE ProcessLines(ProcessLine(acc, lines[i]), lines, i + 1)

CircularError(r) ==
    [kind |-> "Circular", filename |-> r.filename, line_number |-> r.line_number,
     source |-> r.source, target |-> r.target]

PossibleCircularWarning(r) ==
    [kind |-> "PossibleCircular", filename |-> r.filename, line_number |-> r.line_number,
     source |-> r.source, target |-> r.target, netloc |-> urlparse(r.target).netloc]

\* validate_redirect (lines 210-226) on the accumulated messages: the branches
\* after to_url is settled.
CheckCircular(acc, r, parsed_source, to_url) ==
    IF r.target \in DOMAIN acc.processed_redirects \/ r.target = parsed_source.path
    THEN [acc EXCEPT !.error_messages = AppendTo(@, r.source, CircularError(r))]
    ELSE IF urljoin(r.source, to_url.path) \in DOMAIN acc.processed_redirects
            /\ ~(r.status_code = GoneStatusCode)
    THEN IF to_url.netloc = <<>>
         THEN [acc EXCEPT !.error_messages = AppendTo(@, r.source, CircularError(r))]
         ELSE IF to_url.netloc # <<>> /\ parsed_source.netloc = <<>>
         THEN [acc EXCEPT !.warning_messages =
                              AppendTo(@, r.source, PossibleCircularWarning(r))]
         ELSE acc
    ELSE acc

\* validate_redirect with redirect.parsed_source and redirect.parsed_target.
ValidateParsed(acc, r, with_slash, parsed_source, parsed_target) ==
    IF with_slash
    THEN IF ~endswith(parsed_target.path, <<"/">>)
         THEN CheckCircular(acc, r, parsed_source,
                            [parsed_target EXCEPT !.path = @ \o <<"/">>])
         ELSE acc
    ELSE CheckCircular(acc, r, parsed_source, parsed_target)

\* validate_redirect as it would be if line 220 compared the target with the
\* redirect's own source only.
validate_redirect_SelfOnly(acc, r, with_slash) ==
    IF r.target = urlparse(r.source).path
    THEN [acc EXCEPT !.error_messages = AppendTo(@, r.source, CircularError(r))]
    ELSE acc

\* validate_redirect (lines 210-226).
validate_redirect(acc, r, with_slash) ==
    ValidateParsed(acc, r, with_slash, urlparse(r.source), urlparse(r.target))

\* The body of the loop over processed_redirects.items() (lines 229-232).
ValidateItem(acc, r, append_slash) ==
    IF append_slash
    THEN validate_redirect(validate_redirect(acc, r, FALSE), r, TRUE)
    ELSE validate_redirect(acc, r, FALSE)

RECURSIVE ValidateAll(_, _, _)
ValidateFrom(acc, s, todo, append_slash) ==
    ValidateAll(ValidateItem(acc, acc.processed_redirects[s], append_slash),
                todo \ {s}, append_slash)

ValidateAll(acc, todo, append_slash) ==
    IF todo = {} THEN acc
    ELSE ValidateFrom(acc, CHOOSE x \in todo : TRUE, todo, append_slash)

\* Every message of a dict of message lists.
Messages(d) == UNION {{d[k][i] : i \in DOMAIN d[k]} : k \in DOMAIN d}

\* Lines 234-243: raise, or warn of every message and return the table.
Finish(done, raise) ==
    [processed_redirects |-> done.processed_redirects,
     error_messages |-> done.error_messages,
     warning_messages |-> done.warning_messages,
     outcome |-> IF raise THEN "ImproperlyConfigured" ELSE "returned",
     warned |-> IF raise THEN {}
                ELSE Messages(done.warning_messages) \cup Messages(done.error_messages)]

FinishChecked(done, raise_errors) ==
    Finish(done, DOMAIN done.error_messages # {} /\ raise_errors)

CheckTable(built, raise_errors, append_slash) ==
    FinishChecked(ValidateAll(built, DOMAIN built.processed_redirects, append_slash),
                  raise_errors)

EmptyTable ==
    [processed_redirects |-> EmptyDict, error_messages |-> EmptyDict,
     warning_messages |-> EmptyDict]

preprocess_redirects(lines, raise_errors, append_slash) ==
    CheckTable(ProcessLines(EmptyTable, lines, 1), raise_errors, append_slash)

(***************************************************************************)
(* The inputs: CSV fields and URLs.                                        *)
(***************************************************************************)
MaxLines == 2

UrlA == <<"/", "a">>
UrlAPadded == <<" ", "/", "a">>
UrlB == <<"/", "b">>
UrlHostB == <<"h", "t", "t", "p", ":", "/", "/", "h", "/", "b">>
Blank == <<" ">>

Code200 == <<"2", "0", "0">>
Code301 == <<"3", "0", "1">>
Code302 == <<"3", "0", "2">>
Code404 == <<"4", "0", "4">>
Code410 == <<"4", "1", "0">>
Code302Padded == <<" ", "3", "0", "2">>

\* The fields csv.DictReader can give: a missing field is None, an empty one ''.
FieldSources == {UrlA, UrlAPadded, UrlB, UrlHostB}
FieldTargets == {None, <<>>, Blank, UrlA, UrlB, <<"/", "b", " ">>, UrlHostB}
FieldStatusCodes == {None, <<>>, Code200, Code301, Code302, Code404, Code410, Code302Padded}

(***************************************************************************)
(* Redirect.__init__ on one CSV row.                                       *)
(***************************************************************************)
InitRedirect ==
    /\ APPEND_SLASH = FALSE
    /\ redirect = Idle
    /\ pre = Idle /\ mw = Idle /\ fb = Idle
    /\ templates = Idle /\ request = Idle /\ finder = Idle /\ money = Idle

NewRedirect ==
    \E source \in FieldSources, target \in FieldTargets,
       status_code \in FieldStatusCodes, line_number \in 0..(MaxLines - 1) :
        LET r == Redirect(source, target, status_code, CsvFile, line_number)
        IN  /\ redirect' = [kind |-> "built",
                            row |-> [source |-> source, target |-> target,
                                     status_code |-> status_code],
                            obj |-> r,
                            errors |-> errors(r),
                            is_valid |-> is_valid(r)]
            /\ UNCHANGED <<APPEND_SLASH, pre, mw, fb, templates, request, finder, money>>

NextRedirect == NewRedirect

SpecRedirect == InitRedirect /\ [][NextRedirect]_vars

(***************************************************************************)
(* preprocess_redirects on the rows of a CSV file.                         *)
(***************************************************************************)
TableSources == {UrlA, UrlAPadded, UrlB, UrlHostB}
TableTargets == {None, UrlA, UrlB, UrlHostB}
TableStatusCodes == {None, Code200}

TableRows ==
    [source : TableSources, target : TableTargets, status_code : TableStatusCodes]

TableFiles == UNION {[1..n -> TableRows] : n \in 1..MaxLines}

InitPreprocess ==
    /\ APPEND_SLASH \in BOOLEAN
    /\ \E rows \in TableFiles, raise_errors \in BOOLEAN :
           pre = [kind |-> "input", rows |-> rows, raise_errors |-> raise_errors]
    /\ redirect = Idle /\ mw = Idle /\ fb = Idle
    /\ templates = Idle /\ request = Idle /\ finder = Idle /\ money = Idle

Preprocess ==
    /\ pre.kind = "input"
    /\ LET lines == scrape_redirects(pre.rows)
           out   == preprocess_redirects(lines, pre.raise_errors, APPEND_SLASH)
       IN  pre' = [kind |-> "called", lines |-> lines, raise_errors |-> pre.raise_errors,
                   processed_redirects |-> out.processed_redirects,
                   error_messages |-> out.error_messages,
                   warning_messages |-> out.warning_messages,
                   outcome |-> out.outcome, warned |-> out.warned]
    /\ UNCHANGED <<APPEND_SLASH, redirect, mw, fb, templates, request, finder, money>>

NextPreprocess == Preprocess

SpecPreprocess == InitPreprocess /\ [][NextPreprocess]_vars


(***************************************************************************)
(* Claims about Redirect.__init__ (checked under SpecRedirect).            *)
(***************************************************************************)
Built == redirect.kind = "built"

\* C2: a Redirect built from a CSV row has status code 301 when the row has a
\* target and no status code, the row's status code as an integer when it has a
\* target and a status code, and 410 when it has no target, whatever the status
\* code field holds.
C2_StatusCodeOfRow ==
    Built =>
        LET row       == redirect.row
            hasTarget == row.target # None /\ Len(row.target) > 0
            hasCode   == row.status_code # None /\ Len(row.status_code) > 0
        IN  /\ (hasTarget /\ ~hasCode) => redirect.obj.status_code = 301
            /\ (hasTarget /\ hasCode) =>
                   \E n \in {200, 301, 302, 404, 410} :
                       /\ redirect.obj.status_code = n
                       /\ strip(row.status_code, Whitespace) = 
                              CASE n = 200 -> Code200 [] n = 301 -> Code301
                                [] n = 302 -> Code302 [] n = 404 -> Code404
                                [] n = 410 -> Code410
            /\ ~hasTarget => redirect.obj.status_code = 410

\* C2 witness: a row with no target and status code 302 was built into a 410.
C2_Witness ==
    /\ Built
    /\ redirect.row.target = None
    /\ redirect.row.status_code = Code302
    /\ redirect.obj.status_code = 410


(***************************************************************************)
(* Claims about preprocess_redirects (checked under SpecPreprocess).       *)
(***************************************************************************)
Called == pre.kind = "called"

StrippedSource(line) == strip(line.source, Whitespace)

\* The messages of one kind recorded under a source in a dict of message lists.
Recorded(d, source, kind) ==
    IF source \in DOMAIN d
    THEN {i \in DOMAIN d[source] : d[source][i].kind = kind}
    ELSE {}

\* C3: whenever a row has a status code that is neither in 300..399 nor 410, a
\* 'Non 3xx/410 status code' error is recorded for it and, with raise_errors,
\* preprocess_redirects raises ImproperlyConfigured instead of returning.
C3_InvalidStatusCodeIsAnError ==
    Called =>
        \A i \in DOMAIN pre.lines :
            (pre.lines[i].target # None /\ pre.lines[i].status_code = Code200) =>
                /\ Recorded(pre.error_messages, StrippedSource(pre.lines[i]),
                            "NonRedirectStatus") # {}
                /\ pre.raise_errors => pre.outcome = "ImproperlyConfigured"

\* The sources reached from the sources S by following exact target-to-source
\* matches in the table, in one step and in any number of steps.
Step(table, S) == {table[s].target : s \in S} \cap DOMAIN table

RECURSIVE Reach(_, _)
Reach(table, S) ==
    LET next == S \cup Step(table, S)
    IN  IF next = S THEN S ELSE Reach(table, next)

OnCycle(table, s) == s \in Reach(table, Step(table, {s}))

\* C4: every redirect of the table that lies on a cycle of exact source-to-target
\* matches (a redirect to its own source included) has a 'Circular redirect'
\* error recorded under its source, and with raise_errors the call raises
\* ImproperlyConfigured instead of returning the table.
C4_CyclesAreErrors ==
    Called =>
        \A s \in DOMAIN pre.processed_redirects :
            OnCycle(pre.processed_redirects, s) =>
                /\ \E i \in Recorded(pre.error_messages, s, "Circular") :
                       /\ pre.error_messages[s][i].source = s
                       /\ pre.error_messages[s][i].target = pre.processed_redirects[s].target
                /\ pre.raise_errors => pre.outcome = "ImproperlyConfigured"

\* C4 witness: two different sources redirect to each other and the call raised.
C4_Witness ==
    /\ Called
    /\ pre.raise_errors
    /\ pre.outcome = "ImproperlyConfigured"
    /\ \E s, t \in DOMAIN pre.processed_redirects :
           /\ s # t
           /\ pre.processed_redirects[s].target = t
           /\ pre.processed_redirects[t].target = s

\* The lines whose source, stripped, is s.
Occurrences(s) == {i \in DOMAIN pre.lines : StrippedSource(pre.lines[i]) = s}

Max(S) == CHOOSE x \in S : \A y \in S : y <= x
Min(S) == CHOOSE x \in S : \A y \in S : x <= y

\* C5: rows with the same stripped source give one 'Duplicate declaration'
\* warning per occurrence after the first, never an error, and the returned
\* dictionary has exactly one entry per source, built from its last row.
C5_DuplicatesAreWarnings ==
    Called =>
        LET sources == {StrippedSource(pre.lines[i]) : i \in DOMAIN pre.lines}
        IN  /\ \A s \in sources :
                   LET dups == Recorded(pre.warning_messages, s, "Duplicate")
                   IN  /\ Cardinality(dups) = Cardinality(Occurrences(s)) - 1
                       /\ {pre.warning_messages[s][i].line_number : i \in dups}
                              = {ToString(pre.lines[j].line_number) :
                                     j \in Occurrences(s) \ {Min(Occurrences(s))}}
                       /\ Recorded(pre.error_messages, s, "Duplicate") = {}
            /\ pre.outcome = "returned" =>
                   /\ DOMAIN pre.processed_redirects = sources
                   /\ \A s \in sources :
                          LET last == pre.lines[Max(Occurrences(s))]
                              r    == pre.processed_redirects[s]
                          IN  /\ r.source = s
                              /\ r.target = IF last.target = None THEN <<>>
                                            ELSE strip(last.target, Whitespace)
                              /\ r.line_number = IF last.line_number = 0 THEN ""
                                                 ELSE ToString(last.line_number)

\* C5 witness: a padded and an unpadded spelling of one source with different
\* targets, the table returned with raise_errors set, one warning recorded.
C5_Witness ==
    /\ Called
    /\ pre.raise_errors
    /\ pre.outcome = "returned"
    /\ Len(pre.lines) = 2
    /\ pre.lines[1].source = UrlAPadded /\ pre.lines[2].source = UrlA
    /\ pre.lines[1].target # pre.lines[2].target
    /\ Cardinality(Recorded(pre.warning_messages, UrlA, "Duplicate")) = 1
    /\ pre.processed_redirects[UrlA].target = pre.lines[2].target


(***************************************************************************)
(* RedirectFallbackMiddleware                                              *)
(***************************************************************************)
NotFound == 404

\* django.utils.encoding.iri_to_uri on the characters of the model: a space is
\* percent-encoded, every other character is kept.
RECURSIVE iri_to_uri(_)
iri_to_uri(s) ==
    IF s = <<>> THEN <<>>
    ELSE (IF Head(s) = " " THEN <<"%", "2", "0">> ELSE <<Head(s)>>) \o iri_to_uri(Tail(s))

\* get_redirect: NoResponse stands for the None it returns without a match.
NoResponse == [origin |-> "none"]

get_redirect(redirects, path, full_uri) ==
    LET key == IF full_uri \in DOMAIN redirects THEN full_uri
               ELSE IF iri_to_uri(path) \in DOMAIN redirects THEN iri_to_uri(path)
               ELSE IF path \in DOMAIN redirects THEN path
               ELSE None
    IN  IF key = None THEN NoResponse
        ELSE [origin |-> "get_redirect",
              status_code |-> redirects[key].status_code,
              Location |-> IF Truthy(redirects[key].target)
                           THEN redirects[key].target ELSE None]

\* The Site of the project and the hosts and paths requests arrive with.
SiteDomain == <<"h">>
RequestHosts == {<<"h">>, <<"o">>}
RequestPaths == {UrlA, UrlB, <<"/", "c">>}
ResponseStatusCodes == {200, 404, 500}

\* HttpRequest.build_absolute_uri and get_full_path of a request without query.
build_absolute_uri(req) == <<"h", "t", "t", "p", ":", "/", "/">> \o req.host \o req.path
get_full_path(req) == req.path

\* RedirectFallbackMiddleware.process_response (lines 278-286).
process_response(redirects, req, response) ==
    IF response.status_code # NotFound /\ SiteDomain = req.host
    THEN response
    ELSE LET found == get_redirect(redirects, get_full_path(req), build_absolute_uri(req))
         IN  IF found # NoResponse THEN found ELSE response

InitFallback ==
    /\ APPEND_SLASH \in BOOLEAN
    /\ \E rows \in TableFiles, raise_errors \in BOOLEAN :
           mw = [kind |-> "input", rows |-> rows, raise_errors |-> raise_errors]
    /\ fb = Idle
    /\ redirect = Idle /\ pre = Idle
    /\ templates = Idle /\ request = Idle /\ finder = Idle /\ money = Idle

\* RedirectFallbackMiddleware.__init__ (lines 261-265).
Construct ==
    /\ mw.kind = "input"
    /\ LET out == preprocess_redirects(scrape_redirects(mw.rows), mw.raise_errors,
                                       APPEND_SLASH)
       IN  mw' = IF out.outcome = "returned"
                 THEN [kind |-> "constructed", redirects |-> out.processed_redirects]
                 ELSE [kind |-> "ImproperlyConfigured"]
    /\ UNCHANGED <<APPEND_SLASH, redirect, pre, fb, templates, request, finder, money>>

ProcessResponse ==
    /\ mw.kind = "constructed"
    /\ \E host \in RequestHosts, path \in RequestPaths, status \in ResponseStatusCodes :
           LET req      == [host |-> host, path |-> path]
               response == [origin |-> "view", status_code |-> status, Location |-> None]
           IN  fb' = [kind |-> "called", request |-> req, response |-> response,
                      result |-> process_response(mw.redirects, req, response)]
    /\ UNCHANGED <<APPEND_SLASH, redirect, pre, mw, templates, request, finder, money>>

NextFallback == Construct \/ ProcessResponse

SpecFallback == InitFallback /\ [][NextFallback]_vars

\* C1: for every request, whatever its host, and every response whose status
\* code is not 404, process_response returns the original response unchanged and
\* produces no 3xx or 410 response, whatever the redirect table contains.
C1_OnlyNotFoundIsRedirected ==
    (fb.kind = "called" /\ fb.response.status_code # 404) =>
        /\ fb.result = fb.response
        /\ ~(fb.result.status_code \in 300..399 \/ fb.result.status_code = 410)


(***************************************************************************)
(* generic_template_finder_view and GenericTemplateFinderMiddleware        *)
(***************************************************************************)
Slash == {"/"}
Html == <<".", "h", "t", "m", "l">>
IndexHtml == <<"i", "n", "d", "e", "x", ".", "h", "t", "m", "l">>
PermanentRedirect == 301
Ok == 200

PathRoot == <<"/">>
PathF == <<"/", "f">>
PathFSlash == <<"/", "f", "/">>

NameDotHtml == Html
NameEmpty == <<>>
NameFHtml == <<"f">> \o Html
NameFIndex == <<"f", "/">> \o IndexHtml
NameF == <<"f">>

\* What render() meets for a template name: a template file, nothing
\* (TemplateDoesNotExist), a directory (OSError with errno EISDIR) or a file
\* it may not read (another OSError).
TemplateKind(tpl, name) == IF name \in DOMAIN tpl THEN tpl[name] ELSE "missing"

\* The template directories a project can have: the name '' is the template
\* directory itself, and f/index.html exists only inside a directory f.
TemplateDirs ==
    {tpl \in [{NameDotHtml, IndexHtml, NameEmpty, NameFHtml, NameFIndex, NameF}
                 -> {"missing", "file", "dir", "eacces"}] :
        /\ tpl[NameDotHtml] \in {"missing", "file"}
        /\ tpl[IndexHtml] \in {"missing", "file"}
        /\ tpl[NameEmpty] \in {"missing", "dir"}
        /\ tpl[NameF] \in {"missing", "file", "dir"}
        /\ tpl[NameFIndex] \in {"missing", "file"}
        /\ tpl[NameFIndex] = "file" => tpl[NameF] = "dir"}

\* path = base_path + request.path, with a slash appended when it has none.
FinderPath(base_path, req_path) ==
    IF endswith(base_path \o req_path, <<"/">>) THEN base_path \o req_path
    ELSE base_path \o req_path \o <<"/">>

\* The possibilities as they would be with index.html tried first.
FinderPossibilities_IndexFirst(path) ==
    <<lstrip(path, Slash) \o IndexHtml, strip(path, Slash) \o Html, strip(path, Slash)>>

\* possibilities (lines 38-42).
FinderPossibilities(path) ==
    <<strip(path, Slash) \o Html, lstrip(path, Slash) \o IndexHtml, strip(path, Slash)>>

\* Lines 58-64: the template t was rendered.
Found(t, tried, path, req_path, append_slash) ==
    IF endswith(t, Html) /\ ~endswith(path, req_path) /\ append_slash
    THEN [kind |-> "redirect", status_code |-> PermanentRedirect, Location |-> path,
          tried |-> tried]
    ELSE [kind |-> "rendered", status_code |-> Ok, template |-> t, tried |-> tried]

\* The loop over the possibilities (lines 43-65).
RECURSIVE TryPossibilities(_, _, _, _, _, _)
TryOne(kind, poss, i, path, req_path, tpl, append_slash) ==
    CASE kind = "file" -> Found(poss[i], SubSeq(poss, 1, i), path, req_path, append_slash)
      [] kind = "eacces" -> [kind |-> "OSError", tried |-> SubSeq(poss, 1, i)]
      [] OTHER -> TryPossibilities(poss, i + 1, path, req_path, tpl, append_slash)

TryPossibilities(poss, i, path, req_path, tpl, append_slash) ==
    IF i > Len(poss) THEN [kind |-> "Http404", tried |-> poss]
    ELSE TryOne(TemplateKind(tpl, poss[i]), poss, i, path, req_path, tpl, append_slash)

FinderViewOnPath(path, req_path, tpl, append_slash) ==
    TryPossibilities(FinderPossibilities(path), 1, path, req_path, tpl, append_slash)

generic_template_finder_view(req_path, base_path, tpl, append_slash) ==
    FinderViewOnPath(FinderPath(base_path, req_path), req_path, tpl, append_slash)

NotCalled == [kind |-> "not called", tried |-> <<>>]

\* process_view as it would be without the assignment of line 101.
process_view_ForgetsFlag(req) == req

\* GenericTemplateFinderMiddleware.process_view: the attribute it sets.
process_view(req) == [req EXCEPT !.view_found = TRUE]

\* GenericTemplateFinderMiddleware.process_response: whether the view is tried.
TriesFinder(req, response) == response.status_code = NotFound /\ ~req.view_found

\* The response of process_response given what the view did: Http404 gives the
\* original response, another exception propagates.
FinderResponse(response, view) ==
    CASE view.kind = "not called" -> response
      [] view.kind = "Http404" -> response
      [] view.kind = "OSError" -> [origin |-> "OSError"]
      [] view.kind = "redirect" ->
             [origin |-> "finder", status_code |-> view.status_code,
              Location |-> view.Location]
      [] view.kind = "rendered" ->
             [origin |-> "finder", status_code |-> view.status_code,
              template |-> view.template]

\* The set_urlconf calls of process_response, in order.
UrlconfCalls(req, tries) ==
    IF ~tries THEN <<>>
    ELSE IF req.has_urlconf THEN <<"request.urlconf", "None">>
    ELSE <<"None">>

FinderBasePaths == {<<>>, PathF}
FinderRequestPaths == {PathRoot, PathF, PathFSlash}
FinderStatusCodes == {Ok, NotFound}

InitFinder ==
    /\ APPEND_SLASH \in BOOLEAN
    /\ templates \in TemplateDirs
    /\ request = Idle
    /\ finder = Idle
    /\ redirect = Idle /\ pre = Idle /\ mw = Idle /\ fb = Idle /\ money = Idle

\* A request arrives; what the last one left is gone.
NewRequest ==
    /\ \E path \in FinderRequestPaths, has_urlconf \in BOOLEAN :
           request' = [kind |-> "request", path |-> path, has_urlconf |-> has_urlconf,
                       view_found |-> FALSE, process_view_called |-> FALSE]
    /\ finder' = Idle
    /\ UNCHANGED <<APPEND_SLASH, redirect, pre, mw, fb, templates, money>>

\* Django resolved the URL to a view and calls process_view before the view.
ProcessView ==
    /\ request.kind = "request"
    /\ finder = Idle
    /\ request' = [process_view(request) EXCEPT !.process_view_called = TRUE]
    /\ UNCHANGED <<APPEND_SLASH, redirect, pre, mw, fb, templates, finder, money>>

\* GenericTemplateFinderMiddleware.process_response (lines 73-94).
FinderProcessResponse ==
    /\ request.kind = "request"
    /\ finder = Idle
    /\ \E status \in FinderStatusCodes :
           LET response == [origin |-> "view", status_code |-> status]
               tries    == TriesFinder(request, response)
               view     == IF tries
                           THEN generic_template_finder_view(request.path, <<>>,
                                                             templates, APPEND_SLASH)
                           ELSE NotCalled
           IN  finder' = [kind |-> "process_response", base_path |-> <<>>,
                          response |-> response, view |-> view,
                          set_urlconf |-> UrlconfCalls(request, tries),
                          result |-> FinderResponse(response, view)]
    /\ UNCHANGED <<APPEND_SLASH, redirect, pre, mw, fb, templates, request, money>>

\* generic_template_finder_view called as the view of a URL pattern.
FinderView ==
    /\ request.kind = "request"
    /\ finder = Idle
    /\ \E base_path \in FinderBasePaths :
           finder' = [kind |-> "view", base_path |-> base_path,
                      view |-> generic_template_finder_view(request.path, base_path,
                                                            templates, APPEND_SLASH)]
    /\ UNCHANGED <<APPEND_SLASH, redirect, pre, mw, fb, templates, request, money>>

NextFinder == NewRequest \/ ProcessView \/ FinderProcessResponse \/ FinderView

SpecFinder == InitFinder /\ [][NextFinder]_vars


(***************************************************************************)
(* Claims about the template finder (checked under SpecFinder).            *)
(***************************************************************************)
\* C6: when process_view was called for the request before process_response,
\* process_response returns the given response unchanged, a 404 included, and
\* attempts no template lookup; a lookup is attempted only for a 404 response
\* on a request for which process_view was never called.
C6_ViewNotFoundIsKept ==
    finder.kind = "process_response" =>
        /\ request.process_view_called =>
               /\ finder.result = finder.response
               /\ finder.view.tried = <<>>
        /\ finder.view.tried # <<>> =>
               /\ finder.response.status_code = 404
               /\ ~request.process_view_called

\* C6 witness: a view raised a 404 for /f/ although f.html exists, and the 404
\* came back from process_response.
C6_Witness ==
    /\ finder.kind = "process_response"
    /\ request.process_view_called
    /\ request.path = PathFSlash
    /\ templates[NameFHtml] = "file"
    /\ finder.response.status_code = 404
    /\ finder.result = finder.response

\* The candidates the documentation gives for a request path, in order.
DocumentedCandidates(P) ==
    CASE P = PathRoot -> <<NameDotHtml, IndexHtml, NameEmpty>>
      [] P = PathF -> <<NameFHtml, NameFIndex, NameF>>
      [] P = PathFSlash -> <<NameFHtml, NameFIndex, NameF>>

\* The index of the first candidate that is a template file, 0 without one.
FirstExisting(cands) ==
    IF \E i \in DOMAIN cands : templates[cands[i]] = "file"
    THEN Min({i \in DOMAIN cands : templates[cands[i]] = "file"})
    ELSE 0

\* The view ran on the request path alone and met no unreadable file.
ViewRan ==
    /\ finder.kind \in {"view", "process_response"}
    /\ finder.view.kind # "not called"
    /\ finder.base_path = <<>>
    /\ \A i \in 1..3 : templates[DocumentedCandidates(request.path)[i]] # "eacces"

ValuePlaces == 3
MaxCentPlaces == 3
CurrencyPlaces == 2

RECURSIVE Pow10(_)
Pow10(n) == IF n <= 0 THEN 1 ELSE 10 * Pow10(n - 1)

Abs(x) == IF x < 0 THEN 0 - x ELSE x

DigitChar(d) ==
    CASE d = 0 -> "0" [] d = 1 -> "1" [] d = 2 -> "2" [] d = 3 -> "3" [] d = 4 -> "4"
      [] d = 5 -> "5" [] d = 6 -> "6" [] d = 7 -> "7" [] d = 8 -> "8" [] d = 9 -> "9"

\* The decimal digits of n >= 0, at least width of them.
RECURSIVE Digits(_, _)
Digits(n, width) ==
    IF n < 10 /\ width <= 1 THEN <<DigitChar(n)>>
    ELSE Append(Digits(n \div 10, width - 1), DigitChar(n % 10))

\* locale grouping for en_US: a comma before every group of three digits.
RECURSIVE Grouped(_)
Grouped(digits) ==
    IF Len(digits) <= 3 THEN digits
    ELSE Grouped(SubSeq(digits, 1, Len(digits) - 3)) \o <<",">>
         \o SubSeq(digits, Len(digits) - 2, Len(digits))

\* ROUND_HALF_UP of v / unit: ties go away from zero.
RoundHalfUp(v, unit) ==
    IF v < 0 THEN 0 - ((2 * (0 - v) + unit) \div (2 * unit))
    ELSE (2 * v + unit) \div (2 * unit)

\* Decimal.quantize(Decimal('1.' + '0' * places), rounding=ROUND_HALF_UP) of a
\* value with ValuePlaces decimal places: the coefficient at `places` places.
quantize(v, places) ==
    IF places >= ValuePlaces THEN v * Pow10(places - ValuePlaces)
    ELSE RoundHalfUp(v, Pow10(ValuePlaces - places))

\* len('0' * cent_places): a negative count gives the empty string.
ZeroCount(cent_places) == IF cent_places > 0 THEN cent_places ELSE 0

\* '%.2f' % abs(val): the cents of q * 10^-n. With more than two places the
\* Decimal goes through a binary float and a tie goes either way (tie_up).
RoundedCents(a, unit, tie_up) ==
    IF 2 * (a % unit) = unit THEN (a \div unit) + (IF tie_up THEN 1 ELSE 0)
    ELSE (2 * a + unit) \div (2 * unit)

FormatCents(q, n, tie_up) ==
    IF n <= CurrencyPlaces THEN Abs(q) * Pow10(CurrencyPlaces - n)
    ELSE RoundedCents(Abs(q), Pow10(n - CurrencyPlaces), tie_up)

\* locale.currency(val, grouping=True) in en_US.UTF-8 given the sign and cents.
CurrencyText(negative, cents) ==
    (IF negative THEN <<"-">> ELSE <<>>) \o <<"$">>
    \o Grouped(Digits(cents \div 100, 1)) \o <<".">> \o Digits(cents % 100, 2)

currency(q, n, tie_up) == CurrencyText(q < 0, FormatCents(q, n, tie_up))

\* str(value)[-extra_places:] of the quantized value, cent_places > 2.
ExtraPlaces(q, n, count) ==
    IF count >= n + 1 + Len(Digits(Abs(q) \div Pow10(n), 1))
    THEN (IF q < 0 THEN <<"-">> ELSE <<>>) \o Digits(Abs(q) \div Pow10(n), 1)
         \o <<".">> \o Digits(Abs(q) % Pow10(n), n)
    ELSE IF count > n
    THEN SubSeq(Digits(Abs(q) \div Pow10(n), 1) \o <<".">> \o Digits(Abs(q) % Pow10(n), n),
                Len(Digits(Abs(q) \div Pow10(n), 1)) + n + 2 - count,
                Len(Digits(Abs(q) \div Pow10(n), 1)) + n + 1)
    ELSE Digits(Abs(q) % Pow10(count), count)

\* Lines 318-328 on the quantized value q * 10^-n.
FormatQuantized(q, n, cent_places, tie_up) ==
    IF cent_places > CurrencyPlaces
    THEN currency(q, n, tie_up) \o ExtraPlaces(q, n, cent_places - CurrencyPlaces)
    ELSE currency(q, n, tie_up)

\* us_dollars_and_cents (lines 295-328): quantize first, clamp cent_places after.
us_dollars_and_cents(v, cent_places, tie_up) ==
    FormatQuantized(quantize(v, ZeroCount(cent_places)), ZeroCount(cent_places),
                    IF cent_places < CurrencyPlaces THEN CurrencyPlaces ELSE cent_places,
                    tie_up)

\* The values formatted, in units of 10^-ValuePlaces.
MoneyDollars == {0, 1, 999, 20000}
MoneyFractions == {0, 4, 5, 82, 125, 449, 450, 500, 995, 999}
MoneyValues ==
    {sign * (d * Pow10(ValuePlaces) + f) :
        sign \in {1, 0 - 1}, d \in MoneyDollars, f \in MoneyFractions}
CentPlaces == (0 - 1)..MaxCentPlaces

InitMoney ==
    /\ \E v \in MoneyValues, cent_places \in CentPlaces :
           money = [kind |-> "input", value |-> v, cent_places |-> cent_places]
    /\ APPEND_SLASH = FALSE
    /\ redirect = Idle /\ pre = Idle /\ mw = Idle /\ fb = Idle
    /\ templates = Idle /\ request = Idle /\ finder = Idle

UsDollarsAndCents ==
    /\ money.kind = "input"
    /\ \E tie_up \in BOOLEAN :
           money' = [kind |-> "called", value |-> money.value,
                     cent_places |-> money.cent_places,
                     result |-> us_dollars_and_cents(money.value, money.cent_places, tie_up)]
    /\ UNCHANGED <<APPEND_SLASH, redirect, pre, mw, fb, templates, request, finder>>

NextMoney == UsDollarsAndCents

SpecMoney == InitMoney /\ [][NextMoney]_vars

\* C8: for every value and every cent_places below 2, the result is the result
\* for cent_places = 2: the value rounded half-up to two decimal places and
\* formatted as US currency.
C8_CentPlacesBelowTwo ==
    (money.kind = "called" /\ money.cent_places < 2) =>
        money.result =
            CurrencyText(money.value < 0 /\ RoundHalfUp(money.value, Pow10(ValuePlaces - 2)) # 0,
                         Abs(RoundHalfUp(money.value, Pow10(ValuePlaces - 2))))

=============================================================================
